---- MODULE Spec2Model ----
(***************************************************************************)
(* USB passthrough manager of winboat: src/renderer/lib/usbmanager.ts and  *)
(* its consumer src/renderer/views/Config.vue.                             *)
(*                                                                         *)
(* A USB device is identified by its <<idVendor, idProduct>> pair.  Every  *)
(* USBManager object that was ever constructed is an element of            *)
(* `managers`; managers[1] is USBManager.instance, the object every        *)
(* `new USBManager()` returns.  The configuration store (WinboatConfig)    *)
(* and the guest state (Winboat) are process-wide singletons.  An object   *)
(* other than the instance is reachable from its own hotplug listeners     *)
(* only; its ptDevices, which nothing can read, is not part of the state.  *)
(***************************************************************************)
EXTENDS Integers, Sequences, FiniteSets, TLC

VARIABLES
    usbDevices,            \* what getDeviceList() returns now: set of pairs
    usbEvents,             \* hotplug events emitted by usb, not yet dispatched
    dispatch,              \* the event whose listeners are running
    managers,              \* every constructed USBManager object
    ptDevices,             \* USBManager.instance.ptDevices.value
    passedThroughDevices,  \* WinboatConfig.config.passedThroughDevices
    isOnline,              \* Winboat.isOnline.value
    vmAttached,            \* devices the guest has attached
    qmpStub,               \* TRUE: the QMP functions are the stubs of the source
    lsusbOut,              \* what an lsusb query returns on this host now
    linuxDeviceDatabase,   \* #linuxDeviceDatabase, read from usb.ids at construction
    usbIdsFile,            \* the lines of the usb.ids file, where the run reads it
    availableDevices,      \* availableDevices.value of Config.vue
    held,                  \* the list array a consumer took from ptDevices.value
    lastOp                 \* the operation that ran last, its error and QMP calls

vars == <<usbDevices, usbEvents, dispatch, managers, ptDevices, passedThroughDevices,
          isOnline, vmAttached, qmpStub, lsusbOut, linuxDeviceDatabase, usbIdsFile,
          availableDevices, held, lastOp>>

----------------------------------------------------------------------------
(* Bounds *)

MaxManagers == 2
MaxPending == 1

(* The devices of the model: same vendor, different products. *)
Pairs == {<<1, 1>>, <<1, 2>>}

----------------------------------------------------------------------------
(* Values *)

Null == "<null>"

\* JavaScript truthiness of a string-or-null value
Truthy(s) == s # Null /\ s # ""

\* a || b
OrElse(a, b) == IF Truthy(a) THEN a ELSE b

HexDigit == <<"0", "1", "2", "3", "4", "5", "6", "7",
              "8", "9", "a", "b", "c", "d", "e", "f">>

\* toString(16) without the padStart, for an identifier below 16
Hex4_NoPad(n) == HexDigit[n + 1]

\* n.toString(16).padStart(4, "0") for a 16-bit identifier
Hex4(n) ==
    HexDigit[((n \div 4096) % 16) + 1] \o HexDigit[((n \div 256) % 16) + 1]
        \o HexDigit[((n \div 16) % 16) + 1] \o HexDigit[(n % 16) + 1]

CacheKey(d) == Hex4(d[1]) \o ":" \o Hex4(d[2])

EmptyMap == [k \in {} |-> Null]

\* A usb.ids as readLinuxDeviceDatabase returns it: vendor 0001 with one
\* product; product 0002 of that vendor and vendor 0002 are not listed.
UsbIds ==
    "0001" :> [name |-> "Logitech", devices |-> ("0001" :> "Unifying Receiver")]

\* A usb.ids without vendor 0001
UsbIdsOther ==
    "0002" :> [name |-> "Realtek", devices |-> ("0001" :> "Card Reader")]

\* A usb.ids whose lines for vendor 0001 and its product 0002 carry only
\* blanks after the identifier: match[2].trim() is the empty string
UsbIdsBlank ==
    "0001" :> [name |-> "", devices |-> ("0002" :> "")]

\* What one lsusb query can return (a failed query returns both fields null)
LsusbResults == [manufacturer : {Null, "Acme"}, product : {Null, "Widget"}]

\* lsusb is missing, is denied, or does not know the device
LsusbFailed == [manufacturer |-> Null, product |-> Null]

\* lsusb prints both string descriptors
LsusbFull == [manufacturer |-> "Acme", product |-> "Widget"]

\* The template with the two names exchanged
FormatDevice_Swapped(vh, ph, vendorText, productText) ==
    "[" \o vh \o ":" \o ph \o "] " \o productText \o " | " \o vendorText

FormatDevice(vh, ph, vendorText, productText) ==
    "[" \o vh \o ":" \o ph \o "] " \o vendorText \o " | " \o productText

\* The cache test that never finds an entry
CacheHas_Never(cache, key) == FALSE

\* this.#deviceStringCache.has(cacheKey)
CacheHas(cache, key) == key \in DOMAIN cache

\* The cache write that keeps only entries with a name
CacheSet_SkipsEmpty(cache, key, entry) ==
    IF entry.manufacturer = Null /\ entry.product = Null THEN cache
    ELSE (key :> entry) @@ cache

\* this.#deviceStringCache.set(key, entry)
CacheSet(cache, key, entry) == (key :> entry) @@ cache

\* stringifyDevice(device) on a manager whose cache is `cache`; ls1 and ls2
\* are the results of the two lsusb queries, should they be made.
\* Result: the cache afterwards, the number of lsusb queries made and the
\* returned text.
stringifyDevice(cache, d, ls1, ls2) ==
    LET vh == Hex4(d[1])
        ph == Hex4(d[2])
        key == vh \o ":" \o ph
    IN  IF CacheHas(cache, key)
        THEN [cache |-> cache,
              queries |-> 0,
              text |-> FormatDevice(vh, ph,
                          OrElse(cache[key].manufacturer, "Unknown Vendor"),
                          OrElse(cache[key].product, "Unknown Product"))]
        ELSE
          LET hasVendor0 == vh \in DOMAIN linuxDeviceDatabase
              name0 == IF hasVendor0 THEN linuxDeviceDatabase[vh].name ELSE Null
              product0 == IF hasVendor0 /\ ph \in DOMAIN linuxDeviceDatabase[vh].devices
                          THEN linuxDeviceDatabase[vh].devices[ph] ELSE Null
              product1 == IF ~Truthy(product0) THEN ls1.product ELSE product0
              replace == ~Truthy(name0) /\ Truthy(ls2.manufacturer)
              hasVendor1 == hasVendor0 \/ replace
              name1 == IF replace THEN ls2.manufacturer ELSE name0
              entry == [manufacturer |-> IF hasVendor1 THEN OrElse(name1, Null) ELSE Null,
                        product |-> OrElse(product1, Null)]
          IN  [cache |-> CacheSet(cache, key, entry),
               queries |-> (IF ~Truthy(product0) THEN 1 ELSE 0)
                              + (IF ~Truthy(name0) THEN 1 ELSE 0),
               text |-> FormatDevice(vh, ph,
                          IF hasVendor1 THEN name1 ELSE "Unknown Vendor",
                          IF Truthy(product1) THEN product1 ELSE "Unknown Product")]

\* The conversion that never throws
ConvertThrows_Never(cache, d) == FALSE

\* #convertDeviceToPTSerializable: throws when the cache has no entry
ConvertThrows(cache, d) == CacheKey(d) \notin DOMAIN cache

\* The record the conversion builds; spreading a missing entry adds no name
convertDeviceToPTSerializable(cache, d) ==
    LET e == IF CacheKey(d) \in DOMAIN cache THEN cache[CacheKey(d)]
             ELSE [manufacturer |-> Null, product |-> Null]
    IN  [vendorId |-> d[1], productId |-> d[2],
         manufacturer |-> e.manufacturer, product |-> e.product]

\* The record formatted without the defaults for missing names
stringifyPTSerializableDevice_NoDefault(r) ==
    FormatDevice(Hex4(r.vendorId), Hex4(r.productId), r.manufacturer, r.product)

\* stringifyPTSerializableDevice(device)
stringifyPTSerializableDevice(r) ==
    FormatDevice(Hex4(r.vendorId), Hex4(r.productId),
                 OrElse(r.manufacturer, "Unknown Vendor"),
                 OrElse(r.product, "Unknown Product"))

SamePair(a, b) == a.vendorId = b.vendorId /\ a.productId = b.productId

\* passedThroughDevices.some(d => d.vendorId === ... && d.productId === ...)
ListHasPair(list, r) == \E i \in 1..Len(list) : SamePair(list[i], r)

\* isDeviceInPassthroughList(device), once the conversion succeeded
isDeviceInPassthroughList(cache, list, d) ==
    ListHasPair(list, convertDeviceToPTSerializable(cache, d))

\* The connection test that compares the vendor only
isPTDeviceConnected_VendorOnly(devices, r) ==
    \E d \in devices : d[1] = r.vendorId

\* isPTDeviceConnected(ptDevice) against a manager's snapshot
isPTDeviceConnected(devices, r) ==
    \E d \in devices : d[1] = r.vendorId /\ d[2] = r.productId

----------------------------------------------------------------------------
(* The VM control channel.  The source ships stubs (qmpStub); the channel  *)
(* the stubs stand for acts on the running guest: add attaches, remove     *)
(* detaches, exists reports, and a guest that is not running has nothing   *)
(* attached.                                                               *)

VMExists(vm, v, p) == <<v, p>> \in vm

VMAdd(online, vm, v, p) == IF online THEN vm \cup {<<v, p>>} ELSE vm

VMRemove(online, vm, v, p) == IF online THEN vm \ {<<v, p>>} ELSE vm

QMPCheckIfDeviceExists(vm, v, p) == IF qmpStub THEN FALSE ELSE VMExists(vm, v, p)

QMPAddDevice(online, vm, v, p) == IF qmpStub THEN vm ELSE VMAdd(online, vm, v, p)

QMPRemoveDevice(online, vm, v, p) == IF qmpStub THEN vm ELSE VMRemove(online, vm, v, p)

\* How a call that changes the guest can end: the stubs always return, the
\* channel they stand for can fail
VMOutcomes == IF qmpStub THEN {"ok"} ELSE {"ok", "fails"}

AddCall(v, p) == [fn |-> "QMPAddDevice", vendorId |-> v, productId |-> p]

RemoveCall(v, p) == [fn |-> "QMPRemoveDevice", vendorId |-> v, productId |-> p]

----------------------------------------------------------------------------
(* State *)

NoDev == <<0, 0>>

\* What the last step did: the operation, the manager whose code ran, the
\* device, the error thrown, the QMP calls made, and for a hotplug listener
\* the QMP calls all listeners of the event have made so far.  A step that
\* begins with stringifyDevice(device) also tells the text it returned and
\* the lsusb queries it made.
Op(op, mgr, dev, error, calls, event) ==
    [op |-> op, mgr |-> mgr, dev |-> dev, error |-> error, calls |-> calls,
     event |-> event, text |-> "", queries |-> 0]

Stringified(op, s) == [op EXCEPT !.text = s.text, !.queries = s.queries]

\* The last step was the host's or the usb library's
NoOp == Op("none", 0, NoDev, "none", <<>>, <<>>)

\* No event is being emitted
IdleDispatch == [kind |-> "none", dev |-> NoDev, next |-> 0, calls |-> <<>>]

\* No listener is running: JavaScript runs one callback at a time
Idle == dispatch.kind = "none"

\* The array a consumer holds: what it read when it took the array (seen),
\* what the array holds now (list), and whether it is still the array the
\* manager has installed (current).  NoHeld: no consumer holds one.
NoHeld == [valid |-> FALSE, seen |-> <<>>, list |-> <<>>, current |-> FALSE]

\* The list changed by writing into the installed array
Installed_InPlace(h, newList) == IF h.current THEN [h EXCEPT !.list = newList] ELSE h

\* concat and filter return a new array, which add and remove install: an
\* array taken earlier keeps its elements and is no longer the installed one
Installed(h, newList) == [h EXCEPT !.current = FALSE]

\* The new record placed before the others
ListConcat_Front(list, pt) == <<pt>> \o list

\* passedThroughDevices.concat(ptDevice)
ListConcat(list, pt) == Append(list, pt)

\* A record as an earlier session stored it
StoredRecord(d) ==
    LET c == stringifyDevice(EmptyMap, d, LsusbFailed, LsusbFailed).cache
    IN  convertDeviceToPTSerializable(c, d)

\* Duplicate-free lists of stored records
RECURSIVE StoredLists(_)
StoredLists(S) ==
    {<<>>} \cup UNION {{<<StoredRecord(d)>> \o l : l \in StoredLists(S \ {d})} : d \in S}

\* this.devices.value.forEach(d => this.stringifyDevice(d)), every lsusb
\* query answering ls
RECURSIVE PreCache(_, _, _)
PreCache(cache, devs, ls) ==
    IF devs = {} THEN cache
    ELSE LET d == CHOOSE x \in devs : TRUE
         IN  PreCache(stringifyDevice(cache, d, ls, ls).cache, devs \ {d}, ls)

\* The body of the constructor, run on every new object: only the hotplug
\* listeners are set up, #setupGuestOnlineListener is not called.
NewManager(devs, ls) ==
    [devices |-> devs,
     deviceStringCache |-> PreCache(EmptyMap, devs, ls),
     watchesOnline |-> FALSE]

\* After the module-level `new USBManager()` (line 259)
InitWith(stub) ==
    /\ linuxDeviceDatabase = UsbIds
    /\ usbDevices \in SUBSET Pairs
    /\ usbEvents = <<>>
    /\ dispatch = IdleDispatch
    /\ passedThroughDevices \in StoredLists(Pairs)
    /\ isOnline = FALSE
    /\ vmAttached = {}
    /\ qmpStub = stub
    /\ lsusbOut \in {LsusbFailed, LsusbFull}
    /\ managers = <<NewManager(usbDevices, lsusbOut)>>
    /\ ptDevices = passedThroughDevices
    /\ usbIdsFile = <<>>
    /\ availableDevices = {}
    /\ held = NoHeld
    /\ lastOp = Op("construct", 1, NoDev, "none", <<>>, <<>>)

\* The guest is reached through a control channel that does what it is asked
Init == InitWith(FALSE)

\* The guest is reached through the stubs of the source
InitStub == InitWith(TRUE)

----------------------------------------------------------------------------
(* The host: devices come and go, usb emits one event for each change *)

Plug(d) ==
    /\ d \notin usbDevices
    /\ Len(usbEvents) < MaxPending
    /\ usbDevices' = usbDevices \cup {d}
    /\ usbEvents' = Append(usbEvents, [kind |-> "attach", dev |-> d])
    /\ lastOp' = NoOp
    /\ UNCHANGED <<dispatch, managers, ptDevices, passedThroughDevices, isOnline,
                   vmAttached, qmpStub, lsusbOut,
                   linuxDeviceDatabase, usbIdsFile, availableDevices, held>>

Unplug(d) ==
    /\ d \in usbDevices
    /\ Len(usbEvents) < MaxPending
    /\ usbDevices' = usbDevices \ {d}
    /\ usbEvents' = Append(usbEvents, [kind |-> "detach", dev |-> d])
    /\ lastOp' = NoOp
    /\ UNCHANGED <<dispatch, managers, ptDevices, passedThroughDevices, isOnline,
                   vmAttached, qmpStub, lsusbOut,
                   linuxDeviceDatabase, usbIdsFile, availableDevices, held>>

\* usb emits the oldest pending event: the listeners of all managers will
\* run, in the order the managers registered them
EmitEvent ==
    /\ Idle
    /\ usbEvents # <<>>
    /\ dispatch' = [kind |-> Head(usbEvents).kind, dev |-> Head(usbEvents).dev,
                    next |-> 1, calls |-> <<>>]
    /\ usbEvents' = Tail(usbEvents)
    /\ lastOp' = NoOp
    /\ UNCHANGED <<usbDevices, managers, ptDevices, passedThroughDevices, isOnline,
                   vmAttached, qmpStub, lsusbOut,
                   linuxDeviceDatabase, usbIdsFile, availableDevices, held>>

\* The listener of managers[dispatch.next] has returned
Advance(calls) ==
    IF dispatch.next = Len(managers) THEN IdleDispatch
    ELSE [dispatch EXCEPT !.next = dispatch.next + 1,
                          !.calls = dispatch.calls \o calls]

\* The attach listener without its test of the guest state
AttachCondition_NoOnline(online, cache, list, vm, d) ==
    /\ isDeviceInPassthroughList(cache, list, d)
    /\ ~QMPCheckIfDeviceExists(vm, d[1], d[2])

\* The condition of the attach listener (lines 64-68)
AttachCondition(online, cache, list, vm, d) ==
    /\ online
    /\ isDeviceInPassthroughList(cache, list, d)
    /\ ~QMPCheckIfDeviceExists(vm, d[1], d[2])

\* The detach listener with the existence test of the attach listener
DetachCondition_NotExists(online, cache, list, vm, d) ==
    /\ online
    /\ isDeviceInPassthroughList(cache, list, d)
    /\ ~QMPCheckIfDeviceExists(vm, d[1], d[2])

\* The condition of the detach listener (lines 78-82)
DetachCondition(online, cache, list, vm, d) ==
    /\ online
    /\ isDeviceInPassthroughList(cache, list, d)
    /\ QMPCheckIfDeviceExists(vm, d[1], d[2])

\* usb.on("attach", ...) of managers[dispatch.next]
AttachHandler ==
    /\ dispatch.kind = "attach"
    /\ LET i == dispatch.next
             d == dispatch.dev
             s == stringifyDevice(managers[i].deviceStringCache, d, lsusbOut, lsusbOut)
             cache == s.cache
             throws == ConvertThrows(cache, d)
             act == ~throws /\ AttachCondition(isOnline, cache, passedThroughDevices, vmAttached, d)
             calls == IF act THEN <<AddCall(d[1], d[2])>> ELSE <<>>
         IN  /\ managers' = [managers EXCEPT ![i].devices = usbDevices,
                                             ![i].deviceStringCache = cache]
             /\ vmAttached' = IF act THEN QMPAddDevice(isOnline, vmAttached, d[1], d[2])
                              ELSE vmAttached
             /\ dispatch' = Advance(calls)
             /\ lastOp' = Stringified(Op("attach", i, d,
                                IF throws THEN "precondition" ELSE "none",
                                calls, dispatch.calls \o calls), s)
    /\ UNCHANGED <<usbDevices, usbEvents, ptDevices, passedThroughDevices, isOnline,
                   qmpStub, lsusbOut,
                   linuxDeviceDatabase, usbIdsFile, availableDevices, held>>

\* usb.on("detach", ...) of managers[dispatch.next]
DetachHandler ==
    /\ dispatch.kind = "detach"
    /\ LET i == dispatch.next
             d == dispatch.dev
             s == stringifyDevice(managers[i].deviceStringCache, d, lsusbOut, lsusbOut)
             cache == s.cache
             throws == ConvertThrows(cache, d)
             act == ~throws /\ DetachCondition(isOnline, cache, passedThroughDevices, vmAttached, d)
             calls == IF act THEN <<RemoveCall(d[1], d[2])>> ELSE <<>>
         IN  /\ managers' = [managers EXCEPT ![i].devices = usbDevices,
                                             ![i].deviceStringCache = cache]
             /\ vmAttached' = IF act THEN QMPRemoveDevice(isOnline, vmAttached, d[1], d[2])
                              ELSE vmAttached
             /\ dispatch' = Advance(calls)
             /\ lastOp' = Stringified(Op("detach", i, d,
                                IF throws THEN "precondition" ELSE "none",
                                calls, dispatch.calls \o calls), s)
    /\ UNCHANGED <<usbDevices, usbEvents, ptDevices, passedThroughDevices, isOnline,
                   qmpStub, lsusbOut,
                   linuxDeviceDatabase, usbIdsFile, availableDevices, held>>

----------------------------------------------------------------------------
(* The guest *)

\* The loop of the guest-online callback (lines 98-103) from entry i on
RECURSIVE guestOnlineSweep(_, _, _, _, _)
guestOnlineSweep(list, i, devices, vm, calls) ==
    IF i > Len(list) THEN [vm |-> vm, calls |-> calls]
    ELSE IF /\ isPTDeviceConnected(devices, list[i])
            /\ ~QMPCheckIfDeviceExists(vm, list[i].vendorId, list[i].productId)
         THEN guestOnlineSweep(list, i + 1, devices,
                  QMPAddDevice(TRUE, vm, list[i].vendorId, list[i].productId),
                  Append(calls, AddCall(list[i].vendorId, list[i].productId)))
         ELSE guestOnlineSweep(list, i + 1, devices, vm, calls)

\* The watch callbacks registered on isOnline, run for the new value TRUE
RECURSIVE RunOnlineWatchers(_, _, _)
RunOnlineWatchers(i, vm, calls) ==
    IF i > Len(managers) THEN [vm |-> vm, calls |-> calls]
    ELSE IF managers[i].watchesOnline
         THEN LET r == guestOnlineSweep(passedThroughDevices, 1,
                                        managers[i].devices, vm, calls)
              IN  RunOnlineWatchers(i + 1, r.vm, r.calls)
         ELSE RunOnlineWatchers(i + 1, vm, calls)

\* Winboat sets isOnline to a new value
GuestOnline ==
    /\ Idle
    /\ ~isOnline
    /\ isOnline' = TRUE
    /\ LET r == RunOnlineWatchers(1, vmAttached, <<>>)
       IN  /\ vmAttached' = r.vm
           /\ lastOp' = Op("online", 0, NoDev, "none", r.calls, <<>>)
    /\ UNCHANGED <<usbDevices, usbEvents, dispatch, managers, ptDevices,
                   passedThroughDevices, qmpStub, lsusbOut,
                   linuxDeviceDatabase, usbIdsFile, availableDevices, held>>

\* The guest going offline empties the list
GuestOffline_ClearsList ==
    /\ Idle
    /\ isOnline
    /\ isOnline' = FALSE
    /\ vmAttached' = {}
    /\ lastOp' = Op("offline", 0, NoDev, "none", <<>>, <<>>)
    /\ passedThroughDevices' = <<>>
    /\ ptDevices' = <<>>
    /\ UNCHANGED <<usbDevices, usbEvents, dispatch, managers, qmpStub, lsusbOut,
                   linuxDeviceDatabase, usbIdsFile, availableDevices, held>>

GuestOffline ==
    /\ Idle
    /\ isOnline
    /\ isOnline' = FALSE
    /\ vmAttached' = {}
    /\ lastOp' = Op("offline", 0, NoDev, "none", <<>>, <<>>)
    /\ UNCHANGED <<usbDevices, usbEvents, dispatch, managers, ptDevices,
                   passedThroughDevices, qmpStub, lsusbOut,
                   linuxDeviceDatabase, usbIdsFile, availableDevices, held>>

----------------------------------------------------------------------------
(* The consumers (Config.vue) *)

\* const usbManager = new USBManager(): the constructor body runs on a new
\* object, and the expression yields managers[1]
Construct ==
    /\ Idle
    /\ Len(managers) < MaxManagers
    /\ managers' = Append(managers, NewManager(usbDevices, lsusbOut))
    /\ lastOp' = Op("construct", Len(managers) + 1, NoDev, "none", <<>>, <<>>)
    /\ UNCHANGED <<usbDevices, usbEvents, dispatch, ptDevices, passedThroughDevices,
                   isOnline, vmAttached, qmpStub, lsusbOut,
                   linuxDeviceDatabase, usbIdsFile, availableDevices, held>>

\* add without its duplicate test
DuplicateFound_NoTest(list, pt) == FALSE

\* The duplicate test with the two identifiers of the new record exchanged
DuplicateFound_Swapped(list, pt) ==
    \E i \in 1..Len(list) :
        list[i].vendorId = pt.productId /\ list[i].productId = pt.vendorId

\* The duplicate test of addDeviceToPassthroughList (lines 197-199)
DuplicateFound(list, pt) ==
    \E i \in 1..Len(list) :
        list[i].vendorId = pt.vendorId /\ list[i].productId = pt.productId

\* The add that calls the VM before it stores the record
AddDevice_VmFirst(d) ==
    /\ Idle
    /\ LET cache == managers[1].deviceStringCache
       IN  IF ConvertThrows(cache, d)
           THEN /\ lastOp' = Op("add", 1, d, "precondition", <<>>, <<>>)
                /\ UNCHANGED <<ptDevices, passedThroughDevices, vmAttached, held>>
           ELSE LET pt == convertDeviceToPTSerializable(cache, d)
                IN  IF DuplicateFound(passedThroughDevices, pt)
                    THEN /\ lastOp' = Op("add", 1, d, "duplicate", <<>>, <<>>)
                         /\ UNCHANGED <<ptDevices, passedThroughDevices, vmAttached, held>>
                    ELSE \E out \in VMOutcomes :
                         LET exists == QMPCheckIfDeviceExists(vmAttached, d[1], d[2])
                             failed == ~exists /\ out = "fails"
                         IN  /\ passedThroughDevices' = IF failed THEN passedThroughDevices
                                  ELSE ListConcat(passedThroughDevices, pt)
                             /\ ptDevices' = passedThroughDevices'
                             /\ held' = IF failed THEN held
                                  ELSE Installed(held, passedThroughDevices')
                             /\ vmAttached' = IF exists \/ failed THEN vmAttached
                                  ELSE QMPAddDevice(isOnline, vmAttached, d[1], d[2])
                             /\ lastOp' = Op("add", 1, d, IF failed THEN "vm" ELSE "none",
                                  IF exists THEN <<>> ELSE <<AddCall(d[1], d[2])>>, <<>>)
    /\ UNCHANGED <<usbDevices, usbEvents, dispatch, managers, isOnline, qmpStub, lsusbOut,
                   linuxDeviceDatabase, usbIdsFile, availableDevices>>

\* usbManager.addDeviceToPassthroughList(device)
AddDevice(d) ==
    /\ Idle
    /\ LET cache == managers[1].deviceStringCache
       IN  IF ConvertThrows(cache, d)
           THEN /\ lastOp' = Op("add", 1, d, "precondition", <<>>, <<>>)
                /\ UNCHANGED <<ptDevices, passedThroughDevices, vmAttached, held>>
           ELSE LET pt == convertDeviceToPTSerializable(cache, d)
                IN  IF DuplicateFound(passedThroughDevices, pt)
                    THEN /\ lastOp' = Op("add", 1, d, "duplicate", <<>>, <<>>)
                         /\ UNCHANGED <<ptDevices, passedThroughDevices, vmAttached, held>>
                    ELSE \E out \in VMOutcomes :
                         LET exists == QMPCheckIfDeviceExists(vmAttached, d[1], d[2])
                             failed == ~exists /\ out = "fails"
                         IN  /\ passedThroughDevices' = ListConcat(passedThroughDevices, pt)
                             /\ ptDevices' = passedThroughDevices'
                             /\ held' = Installed(held, passedThroughDevices')
                             /\ vmAttached' = IF exists \/ failed THEN vmAttached
                                  ELSE QMPAddDevice(isOnline, vmAttached, d[1], d[2])
                             /\ lastOp' = Op("add", 1, d, IF failed THEN "vm" ELSE "none",
                                  IF exists THEN <<>> ELSE <<AddCall(d[1], d[2])>>, <<>>)
    /\ UNCHANGED <<usbDevices, usbEvents, dispatch, managers, isOnline, qmpStub, lsusbOut,
                   linuxDeviceDatabase, usbIdsFile, availableDevices>>

\* The entries removeDeviceFromPassthroughList keeps (lines 223-225)
RemoveKeeps(d, ptDevice) ==
    d.vendorId # ptDevice.vendorId /\ d.productId # ptDevice.productId

\* The remove that stores the new list without publishing it
RemoveDevice_NoPublish(ptDevice) ==
    /\ Idle
    /\ \E out \in VMOutcomes :
       LET exists == QMPCheckIfDeviceExists(vmAttached, ptDevice.vendorId, ptDevice.productId)
           failed == exists /\ out = "fails"
       IN  /\ passedThroughDevices' =
                 SelectSeq(passedThroughDevices, LAMBDA d : RemoveKeeps(d, ptDevice))
           /\ ptDevices' = ptDevices
           /\ held' = held
           /\ vmAttached' = IF exists /\ ~failed
                THEN QMPRemoveDevice(isOnline, vmAttached, ptDevice.vendorId, ptDevice.productId)
                ELSE vmAttached
           /\ lastOp' = Op("remove", 1, <<ptDevice.vendorId, ptDevice.productId>>,
                IF failed THEN "vm" ELSE "none",
                IF exists THEN <<RemoveCall(ptDevice.vendorId, ptDevice.productId)>>
                ELSE <<>>, <<>>)
    /\ UNCHANGED <<usbDevices, usbEvents, dispatch, managers, isOnline, qmpStub, lsusbOut,
                   linuxDeviceDatabase, usbIdsFile, availableDevices>>

\* usbManager.removeDeviceFromPassthroughList(ptDevice)
RemoveDevice(ptDevice) ==
    /\ Idle
    /\ \E out \in VMOutcomes :
       LET exists == QMPCheckIfDeviceExists(vmAttached, ptDevice.vendorId, ptDevice.productId)
           failed == exists /\ out = "fails"
       IN  /\ passedThroughDevices' =
                 SelectSeq(passedThroughDevices, LAMBDA d : RemoveKeeps(d, ptDevice))
           /\ ptDevices' = passedThroughDevices'
           /\ held' = Installed(held, passedThroughDevices')
           /\ vmAttached' = IF exists /\ ~failed
                THEN QMPRemoveDevice(isOnline, vmAttached, ptDevice.vendorId, ptDevice.productId)
                ELSE vmAttached
           /\ lastOp' = Op("remove", 1, <<ptDevice.vendorId, ptDevice.productId>>,
                IF failed THEN "vm" ELSE "none",
                IF exists THEN <<RemoveCall(ptDevice.vendorId, ptDevice.productId)>>
                ELSE <<>>, <<>>)
    /\ UNCHANGED <<usbDevices, usbEvents, dispatch, managers, isOnline, qmpStub, lsusbOut,
                   linuxDeviceDatabase, usbIdsFile, availableDevices>>

\* usbManager.stringifyDevice(device)
Resolve(d) ==
    /\ Idle
    /\ LET s == stringifyDevice(managers[1].deviceStringCache, d, lsusbOut, lsusbOut)
       IN  /\ managers' = [managers EXCEPT ![1].deviceStringCache = s.cache]
           /\ lastOp' = Stringified(Op("resolve", 1, d, "none", <<>>, <<>>), s)
    /\ UNCHANGED <<usbDevices, usbEvents, dispatch, ptDevices, passedThroughDevices,
                   isOnline, vmAttached, qmpStub, lsusbOut, linuxDeviceDatabase,
                   usbIdsFile, availableDevices, held>>

\* usbManager.isDeviceInPassthroughList(device)
Contains(d) ==
    /\ Idle
    /\ lastOp' = Op("contains", 1, d,
                    IF ConvertThrows(managers[1].deviceStringCache, d)
                    THEN "precondition" ELSE "none", <<>>, <<>>)
    /\ UNCHANGED <<usbDevices, usbEvents, dispatch, managers, ptDevices,
                   passedThroughDevices, isOnline, vmAttached, qmpStub, lsusbOut,
                   linuxDeviceDatabase, usbIdsFile, availableDevices, held>>

\* lsusb starts or stops printing a string descriptor (permissions change,
\* the command is installed or removed)
LsusbChange ==
    /\ lsusbOut' \in LsusbResults \ {lsusbOut}
    /\ lastOp' = NoOp
    /\ UNCHANGED <<usbDevices, usbEvents, dispatch, managers, ptDevices,
                   passedThroughDevices, isOnline, vmAttached, qmpStub,
                   linuxDeviceDatabase, usbIdsFile, availableDevices, held>>

\* The records a consumer can pass to remove: an entry of the list it was
\* shown, or a record of a device that is not in the list
RemovableRecords ==
    {passedThroughDevices[i] : i \in 1..Len(passedThroughDevices)}
        \cup {StoredRecord(d) : d \in Pairs}

\* The Device objects a consumer can pass to add: those of the instance's
\* snapshot (usbManager.devices.value) and those getDeviceList() returns
LiveHandles == managers[1].devices \cup usbDevices

Next ==
    \/ \E d \in Pairs : Plug(d)
    \/ \E d \in Pairs : Unplug(d)
    \/ EmitEvent
    \/ AttachHandler
    \/ DetachHandler
    \/ GuestOnline
    \/ GuestOffline
    \/ Construct
    \/ \E d \in LiveHandles : AddDevice(d)
    \/ \E r \in RemovableRecords : RemoveDevice(r)
    \/ \E d \in LiveHandles : Resolve(d)
    \/ \E d \in LiveHandles : Contains(d)

Spec == Init /\ [][Next]_vars

\* Name resolution on its own: one manager, any of the databases, nothing
\* stored yet, an lsusb whose answers change while the process runs
InitResolve ==
    /\ linuxDeviceDatabase \in {UsbIds, UsbIdsOther, UsbIdsBlank}
    /\ usbDevices \in SUBSET Pairs
    /\ usbEvents = <<>>
    /\ dispatch = IdleDispatch
    /\ passedThroughDevices = <<>>
    /\ isOnline = FALSE
    /\ vmAttached = {}
    /\ qmpStub = TRUE
    /\ lsusbOut \in LsusbResults
    /\ managers = <<NewManager(usbDevices, lsusbOut)>>
    /\ ptDevices = passedThroughDevices
    /\ usbIdsFile = <<>>
    /\ availableDevices = {}
    /\ held = NoHeld
    /\ lastOp = Op("construct", 1, NoDev, "none", <<>>, <<>>)

NextResolve ==
    \/ \E d \in Pairs : Plug(d)
    \/ \E d \in Pairs : Unplug(d)
    \/ EmitEvent
    \/ AttachHandler
    \/ DetachHandler
    \/ \E d \in LiveHandles : AddDevice(d)
    \/ \E r \in RemovableRecords : RemoveDevice(r)
    \/ \E d \in LiveHandles : Resolve(d)
    \/ LsusbChange

SpecResolve == InitResolve /\ [][NextResolve]_vars

SpecStub == InitStub /\ [][Next]_vars

----------------------------------------------------------------------------
(* The USB section of Config.vue: the menu of devices that can be added,   *)
(* filled by refreshAvailableDevices, and the rendered passthrough list    *)

LINUX_FOUNDATION_VID == "1d6b"

\* s.includes(t)
Includes(s, t) ==
    \E i \in 1..(Len(s) - Len(t) + 1) : SubSeq(s, i, i + Len(t) - 1) = t

\* The devices of the view: a device of vendor 0001, a device of vendor 0001
\* whose product identifier is 1d6b, and a root hub of vendor 1d6b
ViewPairs == {<<1, 1>>, <<1, 7531>>, <<7531, 2>>}

\* refreshAvailableDevices(): the filter calls isDeviceInPassthroughList on
\* every device of the snapshot, which throws for a device without a cache
\* entry, and stringifyDevice on those not in the list
refreshAvailableDevices ==
    /\ Idle
    /\ LET cache == managers[1].deviceStringCache
           throws == \E d \in managers[1].devices : ConvertThrows(cache, d)
       IN  /\ availableDevices' =
                 IF throws THEN availableDevices
                 ELSE {d \in managers[1].devices :
                         /\ ~isDeviceInPassthroughList(cache, passedThroughDevices, d)
                         /\ ~Includes(stringifyDevice(cache, d, lsusbOut, lsusbOut).text,
                                      LINUX_FOUNDATION_VID)}
           /\ lastOp' = Op("refresh", 1, NoDev,
                           IF throws THEN "precondition" ELSE "none", <<>>, <<>>)
    /\ UNCHANGED <<usbDevices, usbEvents, dispatch, managers, ptDevices,
                   passedThroughDevices, isOnline, vmAttached, qmpStub, lsusbOut,
                   linuxDeviceDatabase, usbIdsFile, held>>

\* The template renders usbManager.ptDevices.value: the consumer now holds
\* the installed array (taking the array it already holds changes nothing)
Observe ==
    /\ Idle
    /\ ~held.current
    /\ held' = [valid |-> TRUE, seen |-> ptDevices, list |-> ptDevices, current |-> TRUE]
    /\ lastOp' = Op("observe", 1, NoDev, "none", <<>>, <<>>)
    /\ UNCHANGED <<usbDevices, usbEvents, dispatch, managers, ptDevices,
                   passedThroughDevices, isOnline, vmAttached, qmpStub, lsusbOut,
                   linuxDeviceDatabase, usbIdsFile, availableDevices>>

\* The records the rendered list offers for removal
ListedRecords == {passedThroughDevices[i] : i \in 1..Len(passedThroughDevices)}

\* The view on a host with the three devices, the stubs of the source, a
\* guest that stays offline and nothing stored yet
InitView ==
    /\ linuxDeviceDatabase = UsbIds
    /\ usbDevices \in SUBSET ViewPairs
    /\ usbEvents = <<>>
    /\ dispatch = IdleDispatch
    /\ passedThroughDevices = <<>>
    /\ isOnline = FALSE
    /\ vmAttached = {}
    /\ qmpStub = TRUE
    /\ lsusbOut = LsusbFailed
    /\ managers = <<NewManager(usbDevices, lsusbOut)>>
    /\ ptDevices = passedThroughDevices
    /\ usbIdsFile = <<>>
    /\ availableDevices = {}
    /\ held = NoHeld
    /\ lastOp = Op("construct", 1, NoDev, "none", <<>>, <<>>)

NextView ==
    \/ \E d \in ViewPairs : Plug(d)
    \/ \E d \in ViewPairs : Unplug(d)
    \/ EmitEvent
    \/ AttachHandler
    \/ DetachHandler
    \/ refreshAvailableDevices
    \/ Observe
    \/ \E d \in availableDevices : AddDevice(d)
    \/ \E r \in ListedRecords : RemoveDevice(r)

SpecView == InitView /\ [][NextView]_vars

----------------------------------------------------------------------------
(* The usb.ids loader.  A line is the sequence of its characters. *)

MaxLines == 3

\* A vendor line
LineVendor == <<"0", "0", "0", "1", " ", " ", "L", "o", "g", "i">>

\* A vendor line with upper-case digits and a trailing blank
LineVendorUpper == <<"0", "A", "1", "B", " ", "A", "c", "m", "e", " ">>

\* A second vendor line for identifier 0001
LineVendorAgain == <<"0", "0", "0", "1", " ", "O", "l", "d">>

\* A product line
LineProduct == <<"\t", "0", "0", "0", "1", " ", "R", "e", "c", "v">>

\* A product line with an upper-case digit and a tab before the name
LineProductUpper == <<"\t", "0", "0", "0", "A", "\t", "P", "a", "d">>

\* A comment line
LineComment == <<"#", " ", "0", "0", "0", "2", " ", " ", "X">>

\* A line of blanks
LineBlank == <<" ">>

\* A line indented by two tabs
LineInterface == <<"\t", "\t", "0", "0", "0", "1", " ", " ", "I", "f">>

UsbIdsLines == {LineVendor, LineVendorUpper, LineVendorAgain, LineProduct,
                LineProductUpper, LineComment, LineBlank, LineInterface}

\* [0-9a-f] under the i flag
HexChars == {"0", "1", "2", "3", "4", "5", "6", "7", "8", "9",
             "a", "b", "c", "d", "e", "f", "A", "B", "C", "D", "E", "F"}

\* \s, and what trim() removes
Whitespace == {" ", "\t"}

\* The identifier kept as it is written
ToLower_Keep(c) == c

\* toLowerCase() of one character of an identifier
ToLower(c) ==
    CASE c = "A" -> "a" [] c = "B" -> "b" [] c = "C" -> "c"
      [] c = "D" -> "d" [] c = "E" -> "e" [] c = "F" -> "f" [] OTHER -> c

\* The string made of the characters cs
RECURSIVE Text(_)
Text(cs) == IF cs = <<>> THEN "" ELSE Head(cs) \o Text(Tail(cs))

RECURSIVE TrimStart(_)
TrimStart(cs) ==
    IF cs # <<>> /\ Head(cs) \in Whitespace THEN TrimStart(Tail(cs)) ELSE cs

RECURSIVE TrimEnd(_)
TrimEnd(cs) ==
    IF cs # <<>> /\ cs[Len(cs)] \in Whitespace
    THEN TrimEnd(SubSeq(cs, 1, Len(cs) - 1)) ELSE cs

\* trim()
Trim(cs) == TrimEnd(TrimStart(cs))

\* cs matches /^([0-9a-f]{4})\s+(.+)$/i
RegexMatches(cs) ==
    /\ Len(cs) >= 6
    /\ \A i \in 1..4 : cs[i] \in HexChars
    /\ cs[5] \in Whitespace

\* match[1].toLowerCase()
MatchId(cs) == Text([i \in 1..4 |-> ToLower(cs[i])])

\* match[2].trim(): \s+ takes all the white space after the identifier, and
\* gives one character back when nothing else is left for (.+)
MatchName(cs) ==
    LET rest == SubSeq(cs, 5, Len(cs))
        after == TrimStart(rest)
        group == IF after = <<>> THEN <<rest[Len(rest)]>> ELSE after
    IN  Text(Trim(group))

\* The loop of readLinuxDeviceDatabase from line i on
RECURSIVE readLines(_, _, _, _)
readLines(lines, i, vendors, currentVendor) ==
    IF i > Len(lines) THEN vendors
    ELSE
      LET line == lines[i]
      IN  IF (line # <<>> /\ line[1] = "#") \/ Trim(line) = <<>>
          THEN readLines(lines, i + 1, vendors, currentVendor)
          ELSE IF line[1] # "\t"
          THEN IF RegexMatches(line)
               THEN readLines(lines, i + 1,
                        (MatchId(line) :> [name |-> MatchName(line), devices |-> EmptyMap])
                            @@ vendors,
                        MatchId(line))
               ELSE readLines(lines, i + 1, vendors, currentVendor)
          ELSE IF Len(line) < 2 \/ line[2] # "\t"
          THEN IF RegexMatches(Tail(line)) /\ currentVendor # Null
               THEN readLines(lines, i + 1,
                        [vendors EXCEPT ![currentVendor].devices =
                            (MatchId(Tail(line)) :> MatchName(Tail(line))) @@ @],
                        currentVendor)
               ELSE readLines(lines, i + 1, vendors, currentVendor)
          ELSE readLines(lines, i + 1, vendors, currentVendor)

\* readLinuxDeviceDatabase(filePath), the file already split into lines
readLinuxDeviceDatabase(lines) == readLines(lines, 1, EmptyMap, Null)

\* The process before the module-level `new USBManager()`: a usb.ids of up
\* to MaxLines lines, no device connected, nothing stored
InitLoader ==
    /\ usbIdsFile \in UNION {[1..n -> UsbIdsLines] : n \in 0..MaxLines}
    /\ linuxDeviceDatabase = EmptyMap
    /\ usbDevices = {}
    /\ usbEvents = <<>>
    /\ dispatch = IdleDispatch
    /\ passedThroughDevices = <<>>
    /\ isOnline = FALSE
    /\ vmAttached = {}
    /\ qmpStub = TRUE
    /\ lsusbOut = LsusbFailed
    /\ managers = <<>>
    /\ ptDevices = <<>>
    /\ availableDevices = {}
    /\ held = NoHeld
    /\ lastOp = NoOp

\* The module-level `new USBManager()` (line 259): the constructor reads
\* usb.ids and takes the device list, here empty
ConstructFirst ==
    /\ managers = <<>>
    /\ linuxDeviceDatabase' = readLinuxDeviceDatabase(usbIdsFile)
    /\ managers' = <<[devices |-> usbDevices, deviceStringCache |-> EmptyMap,
                      watchesOnline |-> FALSE]>>
    /\ ptDevices' = passedThroughDevices
    /\ lastOp' = Op("construct", 1, NoDev, "none", <<>>, <<>>)
    /\ UNCHANGED <<usbDevices, usbEvents, dispatch, passedThroughDevices, isOnline,
                   vmAttached, qmpStub, lsusbOut, usbIdsFile, availableDevices, held>>

NextLoader ==
    \/ ConstructFirst
    \/ managers # <<>> /\ \E d \in Pairs : Plug(d)
    \/ managers # <<>> /\ \E d \in LiveHandles : Resolve(d)

SpecLoader == InitLoader /\ [][NextLoader]_vars

\* Node runs every callback that is due: an emitted event reaches every
\* listener, a pending event is emitted
Fairness ==
    /\ WF_vars(EmitEvent)
    /\ WF_vars(AttachHandler)
    /\ WF_vars(DetachHandler)

FairSpec == Spec /\ Fairness

----------------------------------------------------------------------------
(* Properties *)

PairOf(r) == <<r.vendorId, r.productId>>

ListPairs(list) == {PairOf(list[i]) : i \in 1..Len(list)}

\* The list without the entries whose pair is d, the others in their order
WithoutPair(list, d) == SelectSeq(list, LAMBDA r : PairOf(r) # d)

\* How many times `call` occurs in `calls`
Count(calls, call) == Cardinality({i \in 1..Len(calls) : calls[i] = call})

\* The VM reports device d attached
Reported(vm, d) == QMPCheckIfDeviceExists(vm, d[1], d[2])

\* C1: after a guest transition from offline to online every record of the
\* passthrough list that is connected and not yet reported attached has
\* received exactly one add call, every other record none.
CEx_C1 ==
    [][(~isOnline /\ isOnline') =>
          \A i \in 1..Len(passedThroughDevices) :
             LET r == passedThroughDevices[i]
             IN  Count(lastOp'.calls, AddCall(r.vendorId, r.productId)) =
                   IF /\ isPTDeviceConnected(managers[1].devices, r)
                      /\ ~Reported(vmAttached, PairOf(r))
                   THEN 1 ELSE 0]_vars

\* C2: remove(record) on a list that contains the record's pair removes the
\* entry with that pair and nothing else; the other entries keep their order.
CEx_C2 ==
    [][(lastOp'.op = "remove" /\ lastOp'.dev \in ListPairs(passedThroughDevices)) =>
          passedThroughDevices' = WithoutPair(passedThroughDevices, lastOp'.dev)]_vars

\* C3: remove(record) of a pair that is not in the list leaves the list as
\* it was.
CEx_C3 ==
    [][(lastOp'.op = "remove" /\ lastOp'.dev \notin ListPairs(passedThroughDevices)) =>
          passedThroughDevices' = passedThroughDevices]_vars

\* C4 as claimed: add of a device whose pair is in the list fails with the
\* duplicate error and changes neither the working copy nor the store.
CEx_C4 ==
    [][(lastOp'.op = "add" /\ lastOp'.dev \in ListPairs(passedThroughDevices)) =>
          /\ lastOp'.error = "duplicate"
          /\ passedThroughDevices' = passedThroughDevices
          /\ ptDevices' = ptDevices]_vars

\* C4 as amended: add of a device whose pair is in the list fails, with the
\* duplicate error when the instance's cache holds the pair and with the
\* precondition error when it does not, and changes neither the working
\* copy nor the store.
Thm_C4 ==
    [][(lastOp'.op = "add" /\ lastOp'.dev \in ListPairs(passedThroughDevices)) =>
          /\ lastOp'.error =
                IF CacheKey(lastOp'.dev) \in DOMAIN managers[1].deviceStringCache
                THEN "duplicate" ELSE "precondition"
          /\ passedThroughDevices' = passedThroughDevices
          /\ ptDevices' = ptDevices]_vars

\* An add was refused as a duplicate
Wit_C4 ==
    /\ lastOp.op = "add"
    /\ lastOp.error = "duplicate"
    /\ lastOp.dev \in ListPairs(passedThroughDevices)

\* C5: no two records of the passthrough list have the same pair.
Thm_C5 ==
    \A i, j \in 1..Len(passedThroughDevices) :
        i # j => PairOf(passedThroughDevices[i]) # PairOf(passedThroughDevices[j])

\* An add has just grown the list to two records
Wit_C5 ==
    /\ lastOp.op = "add"
    /\ lastOp.error = "none"
    /\ Len(passedThroughDevices) = 2

\* C6: with a channel that honours its calls, after an add, a remove or a
\* hotplug listener with the guest online, every device the VM reports
\* attached has its pair in the passthrough list.
CEx_C6 ==
    (/\ ~qmpStub
     /\ isOnline
     /\ lastOp.op \in {"add", "remove", "attach", "detach"})
        => \A d \in Pairs : Reported(vmAttached, d) => d \in ListPairs(passedThroughDevices)

\* What C7 and C8 expect of a listener step for device d
ExpectedCalls(cond, call) == IF cond THEN <<call>> ELSE <<>>

\* C7: an attach listener calls QMPAddDevice for its device, once, iff the
\* guest is online, the pair is in the list and the VM does not report the
\* device; otherwise it makes no VM call.
Thm_C7 ==
    [][lastOp'.op = "attach" =>
          LET d == lastOp'.dev
          IN  lastOp'.calls =
                ExpectedCalls(/\ isOnline
                              /\ d \in ListPairs(passedThroughDevices)
                              /\ ~Reported(vmAttached, d),
                              AddCall(d[1], d[2]))]_vars

\* An attach listener has added its device to the VM
Wit_C7 ==
    /\ lastOp.op = "attach"
    /\ lastOp.calls = <<AddCall(lastOp.dev[1], lastOp.dev[2])>>
    /\ lastOp.dev \in vmAttached

\* C8: a detach listener calls QMPRemoveDevice for its device, once, iff the
\* guest is online, the pair is in the list and the VM reports the device;
\* otherwise it makes no VM call.
Thm_C8 ==
    [][lastOp'.op = "detach" =>
          LET d == lastOp'.dev
          IN  lastOp'.calls =
                ExpectedCalls(/\ isOnline
                              /\ d \in ListPairs(passedThroughDevices)
                              /\ Reported(vmAttached, d),
                              RemoveCall(d[1], d[2]))]_vars

\* A detach listener has removed its device from the VM
Wit_C8 ==
    /\ lastOp.op = "detach"
    /\ lastOp.calls = <<RemoveCall(lastOp.dev[1], lastOp.dev[2])>>
    /\ lastOp.dev \notin vmAttached

\* C9: with a channel that honours add and every due callback run, a device
\* that from some point on stays in the list, connected and with the guest
\* online is eventually reported attached.
CEx_C9 ==
    \A d \in Pairs :
        <>[](/\ d \in ListPairs(passedThroughDevices)
             /\ d \in usbDevices
             /\ isOnline)
            => <>Reported(vmAttached, d)

\* C10: a hotplug event is handled by one listener, that of the one
\* manager, and so produces at most one VM call.
CEx_C10 ==
    lastOp.op \in {"attach", "detach"} =>
        /\ lastOp.mgr = 1
        /\ Len(lastOp.event) <= 1

\* The steps that resolve a device's name: a direct call, or the call a
\* hotplug listener makes
ResolveOps == {"resolve", "attach", "detach"}

\* The 4-digit hexadecimal text of the identifiers in use, written out
FourHex == (1 :> "0001") @@ (2 :> "0002")

\* The bracketed identifier prefix of a formatted device string
Bracket(d) == "[" \o FourHex[d[1]] \o ":" \o FourHex[d[2]] \o "] "

\* The name the database gives the vendor of d, Null when it has none
DbVendor(d) ==
    IF FourHex[d[1]] \in DOMAIN linuxDeviceDatabase
    THEN linuxDeviceDatabase[FourHex[d[1]]].name ELSE Null

\* The name the database gives the product of d, Null when it has none
DbProduct(d) ==
    IF /\ FourHex[d[1]] \in DOMAIN linuxDeviceDatabase
       /\ FourHex[d[2]] \in DOMAIN linuxDeviceDatabase[FourHex[d[1]]].devices
    THEN linuxDeviceDatabase[FourHex[d[1]]].devices[FourHex[d[2]]] ELSE Null

\* C11: the first resolution of a pair leaves a cache entry for it, whatever
\* was found, and a resolution of a pair already cached makes no lsusb query.
Thm_C11 ==
    [][lastOp'.op \in ResolveOps =>
          LET i == lastOp'.mgr
              k == CacheKey(lastOp'.dev)
          IN  /\ k \in DOMAIN managers'[i].deviceStringCache
              /\ k \in DOMAIN managers[i].deviceStringCache => lastOp'.queries = 0]_vars

\* A pair cached without any name is resolved again, without a query, while
\* lsusb would now print both names
Wit_C11 ==
    /\ lastOp.op = "resolve"
    /\ lastOp.queries = 0
    /\ managers[1].deviceStringCache[CacheKey(lastOp.dev)] = LsusbFailed
    /\ lsusbOut = LsusbFull

CEx_C13 ==
    [][lastOp'.op \in ResolveOps =>
          LET d == lastOp'.dev
              cache == managers'[lastOp'.mgr].deviceStringCache
          IN  /\ CacheKey(d) \in DOMAIN cache
              /\ cache[CacheKey(d)] = [manufacturer |-> Null, product |-> Null] =>
                    lastOp'.text = Bracket(d) \o "Unknown Vendor | Unknown Product"]_vars

\* C14 as stated: a pair the database does not list, for which lsusb prints
\* the manufacturer M and no product, resolves first to
\* "[vvvv:pppp] M | Unknown Product" and is cached with M and no product.
CEx_C14 ==
    [][/\ lastOp'.op = "resolve"
       /\ CacheKey(lastOp'.dev) \notin DOMAIN managers[1].deviceStringCache
       /\ DbProduct(lastOp'.dev) = Null
       /\ lsusbOut = [manufacturer |-> "Acme", product |-> Null]
       => /\ lastOp'.text = Bracket(lastOp'.dev) \o "Acme | Unknown Product"
          /\ managers'[1].deviceStringCache[CacheKey(lastOp'.dev)]
               = [manufacturer |-> "Acme", product |-> Null]]_vars

\* C14: a pair whose vendor the database does not list, for which lsusb
\* prints the manufacturer M and no product, resolves first to
\* "[vvvv:pppp] M | Unknown Product" and is cached with M and no product.
Thm_C14 ==
    [][/\ lastOp'.op = "resolve"
       /\ CacheKey(lastOp'.dev) \notin DOMAIN managers[1].deviceStringCache
       /\ FourHex[lastOp'.dev[1]] \notin DOMAIN linuxDeviceDatabase
       /\ lsusbOut = [manufacturer |-> "Acme", product |-> Null]
       => /\ lastOp'.text = Bracket(lastOp'.dev) \o "Acme | Unknown Product"
          /\ managers'[1].deviceStringCache[CacheKey(lastOp'.dev)]
               = [manufacturer |-> "Acme", product |-> Null]]_vars

\* A pair of a vendor unknown to the database has been resolved with the
\* manufacturer lsusb printed
Wit_C14 ==
    /\ lastOp.op = "resolve"
    /\ lastOp.queries = 2
    /\ "0001" \notin DOMAIN linuxDeviceDatabase
    /\ lastOp.text = "[0001:0002] Acme | Unknown Product"
    /\ managers[1].deviceStringCache["0001:0002"]
         = [manufacturer |-> "Acme", product |-> Null]

\* C15: an entry the cache holds is never changed or removed by a later step.
Thm_C15 ==
    [][\A i \in 1..Len(managers) :
          \A k \in DOMAIN managers[i].deviceStringCache :
              /\ k \in DOMAIN managers'[i].deviceStringCache
              /\ managers'[i].deviceStringCache[k] = managers[i].deviceStringCache[k]]_vars

\* A listener has resolved a cached pair whose entry differs from what a
\* fresh resolution would store now
Wit_C15 ==
    /\ lastOp.op \in {"attach", "detach"}
    /\ lastOp.queries = 0
    /\ managers[1].deviceStringCache[CacheKey(lastOp.dev)]
         # stringifyDevice(EmptyMap, lastOp.dev, lsusbOut, lsusbOut).cache[CacheKey(lastOp.dev)]

\* C16: add and contains called with a device whose pair the manager's
\* cache does not hold fail with the precondition error of the conversion,
\* and the list, stored and published, is unchanged.
Thm_C16 ==
    [][/\ lastOp'.op \in {"add", "contains"}
       /\ CacheKey(lastOp'.dev) \notin DOMAIN managers[1].deviceStringCache
       => /\ lastOp'.error = "precondition"
          /\ passedThroughDevices' = passedThroughDevices
          /\ ptDevices' = ptDevices]_vars

\* The membership test has been refused for a connected device that was
\* never resolved
Wit_C16 ==
    /\ lastOp.op = "contains"
    /\ lastOp.error = "precondition"
    /\ lastOp.dev \in usbDevices
    /\ CacheKey(lastOp.dev) \notin DOMAIN managers[1].deviceStringCache

\* A stored record of the pair d, names left out
RecordOf(d) ==
    [vendorId |-> d[1], productId |-> d[2], manufacturer |-> Null, product |-> Null]

\* isPTDeviceConnected(record) is true iff the record's pair is in the
\* manager's snapshot
ConnectedIffInSnapshot ==
    \A d \in Pairs :
        isPTDeviceConnected(managers[1].devices, RecordOf(d)) <=> d \in managers[1].devices

\* C17 as stated: isPTDeviceConnected is true iff the pair is in the
\* snapshot, and after the refresh of an attach (detach) event it is true
\* (false) for the event's device.
CEx_C17 ==
    [][/\ ConnectedIffInSnapshot'
       /\ lastOp'.op = "attach" /\ lastOp'.mgr = 1 =>
            isPTDeviceConnected(managers'[1].devices, RecordOf(lastOp'.dev))
       /\ lastOp'.op = "detach" /\ lastOp'.mgr = 1 =>
            ~isPTDeviceConnected(managers'[1].devices, RecordOf(lastOp'.dev))]_vars

\* C17: isPTDeviceConnected is true iff the pair is in the snapshot, and
\* after the refresh of an attach or detach event it is true for the event's
\* device iff the device is connected when the listener runs.
Thm_C17 ==
    [][/\ ConnectedIffInSnapshot /\ ConnectedIffInSnapshot'
       /\ lastOp'.op \in {"attach", "detach"} /\ lastOp'.mgr = 1 =>
            (isPTDeviceConnected(managers'[1].devices, RecordOf(lastOp'.dev))
               <=> lastOp'.dev \in usbDevices)]_vars

\* The manager's attach listener has run and the record of one device only,
\* of the two that share a vendor, is reported connected
Wit_C17 ==
    /\ lastOp.op = "attach"
    /\ lastOp.mgr = 1
    /\ isPTDeviceConnected(managers[1].devices, RecordOf(lastOp.dev))
    /\ \E d \in Pairs : ~isPTDeviceConnected(managers[1].devices, RecordOf(d))

\* C18: the published list equals the stored list, after construction and
\* after every add and remove, successful or failing.
Thm_C18 == ptDevices = passedThroughDevices

\* A remove has emptied a list that held a record
Wit_C18 ==
    /\ lastOp.op = "remove"
    /\ lastOp.error = "none"
    /\ ptDevices = <<>>
    /\ lastOp.calls # <<>>

\* C19: when the VM call of an add or a remove fails, the failure reaches
\* the caller and the list keeps the change stored before the call.
Thm_C19 ==
    [][lastOp'.error = "vm" =>
          /\ lastOp'.op \in {"add", "remove"}
          /\ lastOp'.calls # <<>>
          /\ ptDevices' = passedThroughDevices'
          /\ lastOp'.op = "add" =>
                /\ Len(passedThroughDevices') = Len(passedThroughDevices) + 1
                /\ SubSeq(passedThroughDevices', 1, Len(passedThroughDevices))
                     = passedThroughDevices
                /\ PairOf(passedThroughDevices'[Len(passedThroughDevices')]) = lastOp'.dev
          /\ lastOp'.op = "remove" =>
                /\ Len(passedThroughDevices') <= Len(passedThroughDevices)
                /\ lastOp'.dev \notin ListPairs(passedThroughDevices')]_vars

\* An add whose VM call failed has left its record in the list, and the VM
\* does not hold the device
Wit_C19 ==
    /\ lastOp.op = "add"
    /\ lastOp.error = "vm"
    /\ lastOp.dev \in ListPairs(passedThroughDevices)
    /\ lastOp.dev \notin vmAttached

\* C21: a successful add places the new record after all existing records
\* and leaves those records and their order as they were.
Thm_C21 ==
    [][lastOp'.op = "add" /\ lastOp'.error = "none" =>
          /\ Len(passedThroughDevices') = Len(passedThroughDevices) + 1
          /\ \A i \in 1..Len(passedThroughDevices) :
                passedThroughDevices'[i] = passedThroughDevices[i]
          /\ PairOf(passedThroughDevices'[Len(passedThroughDevices')]) = lastOp'.dev]_vars

\* An add has put its record last, behind the record of the other device
Wit_C21 ==
    /\ lastOp.op = "add"
    /\ lastOp.error = "none"
    /\ Len(passedThroughDevices) >= 2
    /\ PairOf(passedThroughDevices[Len(passedThroughDevices)]) = lastOp.dev
    /\ PairOf(passedThroughDevices[1]) # lastOp.dev

\* C24: no operation, hotplug listener or user add or remove, issues a VM
\* add or remove call while the guest is offline.
CEx_C24 ==
    [][lastOp'.calls # <<>> => isOnline']_vars

\* C26: after construction and after every hotplug listener of the manager,
\* every device of the manager's snapshot has a cache entry.
CEx_C26 ==
    (lastOp.op \in {"construct", "attach", "detach"} /\ lastOp.mgr = 1) =>
        \A d \in managers[1].devices :
            CacheKey(d) \in DOMAIN managers[1].deviceStringCache

\* C27: a step that is not a user add or remove (a hotplug event, a guest
\* transition, any other) changes neither the stored nor the published list.
Thm_C27 ==
    [][lastOp'.op \notin {"add", "remove"} =>
          /\ passedThroughDevices' = passedThroughDevices
          /\ ptDevices' = ptDevices]_vars

\* The manager's detach listener has run for a device of the list: the
\* record is still there and reported disconnected
Wit_C27 ==
    /\ lastOp.op = "detach"
    /\ lastOp.mgr = 1
    /\ lastOp.dev \in ListPairs(passedThroughDevices)
    /\ lastOp.dev \in ListPairs(ptDevices)
    /\ ~isPTDeviceConnected(managers[1].devices, RecordOf(lastOp.dev))

\* C28: the string a resolution returns equals the string a resolution of
\* the same pair returns from the cache afterwards, whatever the database
\* and lsusb hold.
CEx_C28 ==
    [][lastOp'.op \in ResolveOps =>
          lastOp'.text =
             stringifyDevice(managers'[lastOp'.mgr].deviceStringCache, lastOp'.dev,
                             lsusbOut, lsusbOut).text]_vars

\* C29: for a device whose pair is cached, the converted record carries the
\* identifiers and the cached names, and stringifyPTSerializableDevice of
\* the record equals the cached stringifyDevice of the device.
Thm_C29 ==
    \A d \in Pairs :
        LET cache == managers[1].deviceStringCache
            r == convertDeviceToPTSerializable(cache, d)
        IN  CacheKey(d) \in DOMAIN cache =>
              /\ PairOf(r) = d
              /\ r.manufacturer = cache[CacheKey(d)].manufacturer
              /\ r.product = cache[CacheKey(d)].product
              /\ stringifyPTSerializableDevice(r)
                   = stringifyDevice(cache, d, lsusbOut, lsusbOut).text

\* An add has stored the converted record of a device with a manufacturer
\* and no product name, and the record formats with the default product
Wit_C29 ==
    /\ lastOp.op = "add"
    /\ lastOp.error = "none"
    /\ LET r == passedThroughDevices[Len(passedThroughDevices)]
       IN  /\ r.manufacturer # Null
           /\ r.product = Null
           /\ stringifyPTSerializableDevice(r)
                = Bracket(lastOp.dev) \o r.manufacturer \o " | Unknown Product"

\* C22: an array a consumer took from the published list holds, ever after,
\* the records it held when it was taken: add and remove install a new
\* array and write into no array installed before.
Thm_C22 == held.valid => held.list = held.seen

\* The list was changed after a consumer took its array: the installed list
\* differs from what the consumer read, and is another array
Wit_C22 ==
    /\ held.valid
    /\ ~held.current
    /\ lastOp.op \in {"add", "remove"}
    /\ ptDevices # held.seen

\* C25: every QMPAddDevice call, of a listener, the online callback or a
\* user add, names a device that the snapshot of the manager holds when the
\* call is made.
CEx_C25 ==
    [][\A i \in 1..Len(lastOp'.calls) :
          LET call == lastOp'.calls[i]
              mgr == IF lastOp'.mgr = 0 THEN 1 ELSE lastOp'.mgr
          IN  call.fn = "QMPAddDevice" =>
                <<call.vendorId, call.productId>> \in managers'[mgr].devices]_vars

\* C30: a refresh that completes offers exactly the snapshot devices that
\* are not in the passthrough list and whose vendor is not 1d6b.
CEx_C30 ==
    [][lastOp'.op = "refresh" /\ lastOp'.error = "none" =>
          availableDevices' =
             {d \in managers[1].devices :
                d \notin ListPairs(passedThroughDevices) /\ d[1] # 7531}]_vars

\* What each line of UsbIdsLines is, read by eye
Meaning(line) ==
    CASE line = LineVendor -> [kind |-> "vendor", id |-> "0001", name |-> "Logi"]
      [] line = LineVendorUpper -> [kind |-> "vendor", id |-> "0a1b", name |-> "Acme"]
      [] line = LineVendorAgain -> [kind |-> "vendor", id |-> "0001", name |-> "Old"]
      [] line = LineProduct -> [kind |-> "product", id |-> "0001", name |-> "Recv"]
      [] line = LineProductUpper -> [kind |-> "product", id |-> "000a", name |-> "Pad"]
      [] OTHER -> [kind |-> "ignored", id |-> "", name |-> ""]

\* The positions of the vendor lines of a file
VendorLines(file) == {i \in 1..Len(file) : Meaning(file[i]).kind = "vendor"}

\* The greatest element of a non-empty set of positions
Last(S) == CHOOSE i \in S : \A j \in S : j <= i

\* The vendor line that opened the section position i lies in, 0 if none
Opener(file, i) ==
    LET before == {j \in VendorLines(file) : j < i}
    IN  IF before = {} THEN 0 ELSE Last(before)

\* The database a file stands for.  sections(k) gives the vendor lines of
\* identifier k whose sections contribute products.
DatabaseOf(file, sections(_)) ==
    LET ids == {Meaning(file[i]).id : i \in VendorLines(file)}
        products(k) == {i \in 1..Len(file) :
                          /\ Meaning(file[i]).kind = "product"
                          /\ Opener(file, i) \in sections(k)}
    IN  [k \in ids |->
           [name |-> Meaning(file[Last({i \in VendorLines(file) :
                                           Meaning(file[i]).id = k})]).name,
            devices |->
               [p \in {Meaning(file[i]).id : i \in products(k)} |->
                   Meaning(file[Last({i \in products(k) :
                                        Meaning(file[i]).id = p})]).name]]]

\* C23 as stated: every vendor line gives a vendor under its lower-cased
\* identifier, every product line gives a product of the vendor whose
\* section it lies in, and other lines and products before any vendor give
\* nothing.
CEx_C23 ==
    managers # <<>> =>
        linuxDeviceDatabase =
            DatabaseOf(usbIdsFile,
                LAMBDA k : {i \in VendorLines(usbIdsFile) : Meaning(usbIdsFile[i]).id = k})

\* C23: as stated, except that a vendor line whose identifier was seen
\* before starts that vendor afresh: the products of its earlier sections
\* are dropped.
Thm_C23 ==
    managers # <<>> =>
        linuxDeviceDatabase =
            DatabaseOf(usbIdsFile,
                LAMBDA k : {Last({i \in VendorLines(usbIdsFile) :
                                    Meaning(usbIdsFile[i]).id = k})})

\* A file with an upper-case vendor, an upper-case product of it and a line
\* to ignore has been loaded
Wit_C23 ==
    /\ managers # <<>>
    /\ \E i \in 1..Len(usbIdsFile) : Meaning(usbIdsFile[i]).kind = "ignored"
    /\ "0a1b" \in DOMAIN linuxDeviceDatabase
    /\ linuxDeviceDatabase["0a1b"].name = "Acme"
    /\ "000a" \in DOMAIN linuxDeviceDatabase["0a1b"].devices

====
